---- MODULE Spec2Model ----
(***************************************************************************)
(* Model of httpfilter/httpfilterconsole.cpp: an on-path HTTP filter that  *)
(* classifies outbound TCP payloads by their Host header and, on a match,  *)
(* injects a RST to the server and a 302 redirect plus FIN to the client.  *)
(*                                                                         *)
(* Representation.  A C string or byte buffer is a tuple of byte values    *)
(* (ASCII codes) with its terminating NUL.  A field of a network header    *)
(* is the tuple of its bytes in wire (big-endian) order, so that a plain   *)
(* assignment copies bytes and ntohl/htonl/htons are real conversions.     *)
(* A 32-bit host-order number is the pair <<high word, low word>> of its   *)
(* two 16-bit halves, its value being high * 65536 + low.                  *)
(* A buffer is held up to the last byte ever stored into it; temp_host     *)
(* keeps the bytes of an earlier, longer content behind its terminator.    *)
(***************************************************************************)
EXTENDS Integers, Sequences, FiniteSets, TLC

(***************************************************************************)
(* Program constants                                                       *)
(***************************************************************************)
HostBufSize == 1024

SizeofPACKET == 40

SizeofDATAPACKET == 40

SizeofIPHDR == 20

SizeofTCPHDR == 20

IPPROTO_TCP == 6

ExpectedArgc == 5

Word == 65536

(***************************************************************************)
(* Bounds of the model                                                     *)
(***************************************************************************)
MaxCutHeaders == 1

(***************************************************************************)
(* C strings                                                               *)
(***************************************************************************)
NUL == 0

\* the number of bytes before the first NUL
strlen(s) == (CHOOSE i \in 1..Len(s) : s[i] = NUL /\ \A j \in 1..(i - 1) : s[j] # NUL) - 1

CStr(s) == SubSeq(s, 1, strlen(s))

strcpy(src) == CStr(src) \o <<NUL>>

strcat(dst, src) == CStr(dst) \o CStr(src) \o <<NUL>>

tolower(c) == IF c >= 65 /\ c <= 90 THEN c + 32 ELSE c

\* the first position up to limit where s1 and s2 differ ignoring case,
\* no NUL having ended the comparison before it
FirstDifference(s1, s2, limit) ==
    { i \in 1..limit :
        /\ \A j \in 1..(i - 1) : s1[j] # NUL /\ tolower(s1[j]) = tolower(s2[j])
        /\ tolower(s1[i]) # tolower(s2[i]) }

CompareAt(s1, s2, D) ==
    IF D = {} THEN 0
    ELSE LET i == CHOOSE k \in D : TRUE
         IN  tolower(s1[i]) - tolower(s2[i])

\* s2 is a NUL-terminated literal of at most n bytes; s1 holds n bytes or a NUL
strnicmp(s1, s2, n) == CompareAt(s1, s2, FirstDifference(s1, s2, n))

\* both NUL-terminated
stricmp(s1, s2) == CompareAt(s1, s2, FirstDifference(s1, s2, strlen(s1) + 1))

\* the value of the decimal digits of s from position i on
RECURSIVE atoiDigits(_, _, _)
atoiDigits(s, i, acc) ==
    IF s[i] >= 48 /\ s[i] <= 57
    THEN atoiDigits(s, i + 1, acc * 10 + (s[i] - 48))
    ELSE acc

atoi(s) == IF s[1] = 45 THEN 0 - atoiDigits(s, 2, 0)
           ELSE IF s[1] = 43 THEN atoiDigits(s, 2, 0)
           ELSE atoiDigits(s, 1, 0)

memcpy(src, length) == SubSeq(src, 1, length)

(***************************************************************************)
(* Byte order and 32-bit arithmetic                                        *)
(***************************************************************************)
htons(x) == <<(x % Word) \div 256, x % 256>>

ntohl(w) == <<w[1] * 256 + w[2], w[3] * 256 + w[4]>>

htonl(h) == <<h[1] \div 256, h[1] % 256, h[2] \div 256, h[2] % 256>>

\* Add32 without the carry from the low into the high 16 bits
Add32_NoCarry(h, n) ==
    LET lo == h[2] + (n % Word)
        hi == h[1] + ((n \div Word) % Word)
    IN  <<hi % Word, lo % Word>>

\* h + n in unsigned 32-bit arithmetic, n a non-negative C integer
Add32(h, n) ==
    LET lo == h[2] + (n % Word)
        hi == h[1] + ((n \div Word) % Word) + (lo \div Word)
    IN  <<hi % Word, lo % Word>>

(***************************************************************************)
(* String literals of the source                                           *)
(***************************************************************************)
\* "host"
LitHost == <<104, 111, 115, 116, 0>>

\* "true"
LitTrue == <<116, 114, 117, 101, 0>>

\* "HTTP/1.1 302 Found\r\nContent-Type: text/html; charset=utf-8\r\nLocation: http://"
LitResponseHead ==
    <<72, 84, 84, 80, 47, 49, 46, 49, 32, 51, 48, 50, 32, 70, 111, 117, 110,
      100, 13, 10, 67, 111, 110, 116, 101, 110, 116, 45, 84, 121, 112, 101,
      58, 32, 116, 101, 120, 116, 47, 104, 116, 109, 108, 59, 32, 99, 104,
      97, 114, 115, 101, 116, 61, 117, 116, 102, 45, 56, 13, 10, 76, 111,
      99, 97, 116, 105, 111, 110, 58, 32, 104, 116, 116, 112, 58, 47, 47, 0>>

\* "\r\nDate: Mon, 09 Jul 2018 06:27:33 GMT\r\nContent-Length:3\r\n\r\n302"
LitResponseTail ==
    <<13, 10, 68, 97, 116, 101, 58, 32, 77, 111, 110, 44, 32, 48, 57, 32, 74,
      117, 108, 32, 50, 48, 49, 56, 32, 48, 54, 58, 50, 55, 58, 51, 51, 32,
      71, 77, 84, 13, 10, 67, 111, 110, 116, 101, 110, 116, 45, 76, 101, 110,
      103, 116, 104, 58, 51, 13, 10, 13, 10, 51, 48, 50, 0>>

(***************************************************************************)
(* Command lines the program is started with                               *)
(***************************************************************************)
\* "httpfilter"
ProgName == <<104, 116, 116, 112, 102, 105, 108, 116, 101, 114, 0>>

\* argv[1] with argv[4]: "80" with "false", "8080" with "TRUE"
PortLoopbackArgs ==
    { <<<<56, 48, 0>>, <<102, 97, 108, 115, 101, 0>>>>,
      <<<<56, 48, 56, 48, 0>>, <<84, 82, 85, 69, 0>>>> }

\* argv[2]: "qq", ""
TargetArgs == {<<113, 113, 0>>, <<0>>}

\* argv[3]: "m.cn", ""
NewHostArgs == {<<109, 46, 99, 110, 0>>, <<0>>}

\* argv[3]: the longest string new_host_url[1024] holds, 1023 times "a"
LongHostArg == [i \in 1..HostBufSize |-> IF i = HostBufSize THEN NUL ELSE 97]

\* argv[3]: "\r\n\r\n", a string that holds an empty line
BlankLineHostArg == <<13, 10, 13, 10, 0>>

Argv(a1, a2, a3, a4) ==
    [i \in 0..4 |-> CASE i = 0 -> ProgName
                      [] i = 1 -> a1
                      [] i = 2 -> a2
                      [] i = 3 -> a3
                      [] OTHER -> a4]

\* every port and target with the replacement host "m.cn", and every
\* replacement host with port "80", target "qq" and "false"
GoodArgvs ==
    { Argv(pl[1], t, <<109, 46, 99, 110, 0>>, pl[2]) :
        pl \in PortLoopbackArgs, t \in TargetArgs }
    \cup
    { Argv(<<56, 48, 0>>, <<113, 113, 0>>, n, <<102, 97, 108, 115, 101, 0>>) :
        n \in NewHostArgs \cup {LongHostArg, BlankLineHostArg} }

ShortArgv == [i \in 0..1 |-> IF i = 0 THEN ProgName ELSE <<56, 48, 0>>]

(***************************************************************************)
(* PACKET: the IPv4 and TCP headers the program forges                     *)
(***************************************************************************)
ZeroAddr == <<0, 0, 0, 0>>

ZeroPort == <<0, 0>>

ZeroSeq == <<0, 0, 0, 0>>

\* the value of a checksum field that has not been computed (all zero bytes)
NoChecksum == <<>>

\* memset(packet, 0, sizeof(PACKET))
ZeroPACKET ==
    [ip  |-> [Version |-> 0, HdrLength |-> 0, Length |-> <<0, 0>>, TTL |-> 0,
              Protocol |-> 0, Checksum |-> NoChecksum,
              SrcAddr |-> ZeroAddr, DstAddr |-> ZeroAddr],
     tcp |-> [SrcPort |-> ZeroPort, DstPort |-> ZeroPort,
              SeqNum |-> ZeroSeq, AckNum |-> ZeroSeq, HdrLength |-> 0,
              Fin |-> 0, Syn |-> 0, Rst |-> 0, Psh |-> 0, Ack |-> 0,
              Checksum |-> NoChecksum]]

PacketInit ==
    [ZeroPACKET EXCEPT !.ip.Version = 4,
                       !.ip.HdrLength = SizeofIPHDR \div 4,
                       !.ip.Length = htons(SizeofPACKET),
                       !.ip.TTL = 64,
                       !.ip.Protocol = IPPROTO_TCP,
                       !.tcp.HdrLength = SizeofTCPHDR \div 4]

(***************************************************************************)
(* WinDivertHelperCalcChecksums.  The checksum of a header is modelled by  *)
(* the tuple of everything it is computed over: the IPv4 header fields for *)
(* the IP checksum; the pseudo-header, the TCP header fields and the       *)
(* len - sizeof(PACKET) payload bytes for the TCP checksum.  The checksum  *)
(* fields themselves count as zero while it is computed.                   *)
(***************************************************************************)
IpChecksumOf(hdr) ==
    <<hdr.ip.Version, hdr.ip.HdrLength, hdr.ip.Length, hdr.ip.TTL,
      hdr.ip.Protocol, hdr.ip.SrcAddr, hdr.ip.DstAddr>>

TcpChecksumOf(hdr, data, len) ==
    <<hdr.ip.SrcAddr, hdr.ip.DstAddr, hdr.ip.Protocol, len - SizeofIPHDR,
      hdr.tcp.SrcPort, hdr.tcp.DstPort, hdr.tcp.SeqNum, hdr.tcp.AckNum,
      hdr.tcp.HdrLength, hdr.tcp.Fin, hdr.tcp.Syn, hdr.tcp.Rst, hdr.tcp.Psh,
      hdr.tcp.Ack, memcpy(data, len - SizeofPACKET)>>

WinDivertHelperCalcChecksums(hdr, data, len) ==
    [hdr EXCEPT !.ip.Checksum = IpChecksumOf(hdr),
                !.tcp.Checksum = TcpChecksumOf(hdr, data, len)]

WINDIVERT_DIRECTION_OUTBOUND == 0

\* !addr.Direction
NotDirection(d) == IF d = 0 THEN 1 ELSE 0

(***************************************************************************)
(* HTTP payloads.  A payload is a request line followed by header lines    *)
(* and, when the header block is complete, the empty line that ends it.    *)
(***************************************************************************)
\* "GET / HTTP/1.1\r\n"
RequestLine == <<71, 69, 84, 32, 47, 32, 72, 84, 84, 80, 47, 49, 46, 49, 13, 10>>

CRLF == <<13, 10>>

\* ": "
ColonSpace == <<58, 32>>

\* the header lines payloads are made of:
\* "Host: QQ", "hOsT: xy", "Hostname: xy", "Ho: qq"; and "Host-Override: QQ"
HostQQ == [name |-> <<72, 111, 115, 116>>, value |-> <<81, 81>>]

hOsTxy == [name |-> <<104, 79, 115, 84>>, value |-> <<120, 121>>]

Hostnamexy == [name |-> <<72, 111, 115, 116, 110, 97, 109, 101>>, value |-> <<120, 121>>]

Hoqq == [name |-> <<72, 111>>, value |-> <<113, 113>>]

HostOverrideQQ == [name |-> <<72, 111, 115, 116, 45, 79, 118, 101, 114, 114, 105, 100, 101>>,
                   value |-> <<81, 81>>]

HeaderLines == {HostQQ, hOsTxy, Hostnamexy, Hoqq}

\* the header lines segments cut short are made of
CutHeaderLines == {HostQQ, Hostnamexy}

Request(hs, t) == [valid |-> TRUE, junk |-> <<>>, headers |-> hs, terminated |-> t]

\* "hello": bytes that are no HTTP request at all
Garbage == [valid |-> FALSE, junk |-> <<104, 101, 108, 108, 111>>,
            headers |-> <<>>, terminated |-> FALSE]

\* segments cut short before the end of the header block, of every
\* combination of at most MaxCutHeaders header lines
CutPayloads ==
    { Request(hs, FALSE) :
        hs \in UNION { [1..n -> CutHeaderLines] : n \in 0..MaxCutHeaders } }

\* the payloads the interception loop is run on
LoopPayloads ==
    { Garbage,
      Request(<<>>, TRUE),
      Request(<<HostQQ>>, TRUE),
      Request(<<hOsTxy>>, TRUE),
      Request(<<Hoqq, HostQQ>>, TRUE),
      Request(<<HostQQ, Hostnamexy>>, TRUE),
      Request(<<HostOverrideQQ>>, TRUE) }
    \cup CutPayloads

HeaderLineBytes(h) == h.name \o ColonSpace \o h.value \o CRLF

\* the bytes of header lines i.. of hs
RECURSIVE HeaderBlockBytes(_, _)
HeaderBlockBytes(hs, i) ==
    IF i > Len(hs) THEN <<>>
    ELSE HeaderLineBytes(hs[i]) \o HeaderBlockBytes(hs, i + 1)

PayloadBytes(p) ==
    IF ~p.valid THEN p.junk
    ELSE RequestLine \o HeaderBlockBytes(p.headers, 1)
         \o (IF p.terminated THEN CRLF ELSE <<>>)

(***************************************************************************)
(* The streaming parser: the callbacks http_parser_execute makes, in       *)
(* order, for a payload.  `at' is the rest of the line a callback's        *)
(* pointer points into, `length' the length the parser passes.             *)
(***************************************************************************)
\* the callbacks for header lines i.. of hs
RECURSIVE HeaderEvents(_, _)
HeaderEvents(hs, i) ==
    IF i > Len(hs) THEN <<>>
    ELSE << [cb |-> "on_header_field", at |-> HeaderLineBytes(hs[i]),
             length |-> Len(hs[i].name)],
            [cb |-> "on_header_value", at |-> hs[i].value \o CRLF,
             length |-> Len(hs[i].value)] >>
         \o HeaderEvents(hs, i + 1)

http_parser_execute(p) ==
    IF ~p.valid THEN <<>>
    ELSE << [cb |-> "on_url", at |-> <<47, 32>>, length |-> 1] >>
         \o HeaderEvents(p.headers, 1)
         \o (IF p.terminated
             THEN << [cb |-> "on_headers_complete", at |-> <<>>, length |-> 0] >>
             ELSE <<>>)

(***************************************************************************)
(* The classifier: the callbacks and HttpRequestPayloadMatch.  t is the    *)
(* record of the three globals the callbacks work on.                      *)
(***************************************************************************)
my_url_callback(t, at, length) == t

my_header_field_callback(t, at, length) ==
    IF strnicmp(at, LitHost, 4) = 0
    THEN [t EXCEPT !.temp_is_hostheader = TRUE]
    ELSE [t EXCEPT !.temp_is_hostheader = FALSE]

my_header_value_callback(t, at, length) ==
    IF t.temp_is_hostheader = TRUE
    THEN LET len == IF length >= HostBufSize THEN HostBufSize - 1 ELSE length
         IN  [t EXCEPT !.temp_host = memcpy(at, len) \o <<NUL>>
                                       \o SubSeq(t.temp_host, len + 2, Len(t.temp_host)),
                       !.temp_is_hostheader = FALSE]
    ELSE t

my_headers_complete_callback(t) == [t EXCEPT !.temp_header_complete = TRUE]

Callback(t, e) ==
    CASE e.cb = "on_url" -> my_url_callback(t, e.at, e.length)
      [] e.cb = "on_header_field" -> my_header_field_callback(t, e.at, e.length)
      [] e.cb = "on_header_value" -> my_header_value_callback(t, e.at, e.length)
      [] OTHER -> my_headers_complete_callback(t)

\* the globals after callbacks i.. of events, made in order; u is the value
\* of the globals after callback i
RECURSIVE RunCallbacks(_, _, _)
RunCallbacks(t, events, i) ==
    IF i > Len(events) THEN t
    ELSE CHOOSE r \in { RunCallbacks(u, events, i + 1) :
                           u \in {Callback(t, events[i])} } : TRUE

\* HttpRequestPayloadMatch without the test of temp_header_complete
HttpRequestPayloadMatch_IgnoreComplete(t, data, target) ==
    LET t0 == [temp_header_complete |-> FALSE, temp_is_hostheader |-> FALSE,
               temp_host |-> [t.temp_host EXCEPT ![1] = NUL]]
    IN  CHOOSE m \in
          { [ret |-> IF stricmp(target, t1.temp_host) = 0 THEN TRUE ELSE FALSE,
             temp |-> t1] :
            t1 \in {RunCallbacks(t0, http_parser_execute(data), 1)} } : TRUE

\* HttpRequestPayloadMatch without the store to temp_host[0]
HttpRequestPayloadMatch_KeepHost(t, data, target) ==
    LET t0 == [temp_header_complete |-> FALSE, temp_is_hostheader |-> FALSE,
               temp_host |-> t.temp_host]
    IN  CHOOSE m \in
          { [ret |-> IF t1.temp_header_complete = TRUE
                     THEN IF stricmp(target, t1.temp_host) = 0 THEN TRUE ELSE FALSE
                     ELSE FALSE,
             temp |-> t1] :
            t1 \in {RunCallbacks(t0, http_parser_execute(data), 1)} } : TRUE

\* the result and the globals HttpRequestPayloadMatch(data, len) leaves when
\* it is entered with the globals t
HttpRequestPayloadMatch(t, data, target) ==
    LET t0 == [temp_header_complete |-> FALSE, temp_is_hostheader |-> FALSE,
               temp_host |-> [t.temp_host EXCEPT ![1] = NUL]]
    IN  CHOOSE m \in
          { [ret |-> IF t1.temp_header_complete = TRUE
                     THEN IF stricmp(target, t1.temp_host) = 0 THEN TRUE ELSE FALSE
                     ELSE FALSE,
             temp |-> t1] :
            t1 \in {RunCallbacks(t0, http_parser_execute(data), 1)} } : TRUE

\* the contents temp_host can have: as zeroed at load time, as left by a
\* header value, and as left by the store to temp_host[0] after that
TempHosts ==
    LET written == UNION { { p.headers[k].value \o <<NUL>> : k \in 1..Len(p.headers) } :
                             p \in LoopPayloads }
    IN  {<<NUL>>} \cup written \cup { [b EXCEPT ![1] = NUL] : b \in written }

\* the values the three globals of the classifier can have
TempStates == [temp_header_complete : BOOLEAN, temp_is_hostheader : BOOLEAN,
               temp_host : TempHosts]

\* HttpRequestPayloadMatch tabulated over the globals, payloads and targets of
\* the model
MatchResults ==
    [t \in TempStates, data \in LoopPayloads,
     target \in { strcpy(a) : a \in TargetArgs } |->
        HttpRequestPayloadMatch(t, data, target)]

(***************************************************************************)
(* sprintf of the filter expression                                        *)
(***************************************************************************)
RECURSIVE DecimalDigits(_)
DecimalDigits(n) ==
    IF n < 10 THEN <<48 + n>>
    ELSE DecimalDigits(n \div 10) \o <<48 + (n % 10)>>

\* "%d"
FormatInt(n) == IF n < 0 THEN <<45>> \o DecimalDigits(0 - n) ELSE DecimalDigits(n)

\* "outbound && "
LitOutbound == <<111, 117, 116, 98, 111, 117, 110, 100, 32, 38, 38, 32>>

\* " loopback && ip && tcp.DstPort == "
LitLoopbackIpPort ==
    <<32, 108, 111, 111, 112, 98, 97, 99, 107, 32, 38, 38, 32, 105, 112, 32,
      38, 38, 32, 116, 99, 112, 46, 68, 115, 116, 80, 111, 114, 116, 32, 61,
      61, 32>>

\* " && tcp.PayloadLength > 0"
LitPayloadLength ==
    <<32, 38, 38, 32, 116, 99, 112, 46, 80, 97, 121, 108, 111, 97, 100, 76,
      101, 110, 103, 116, 104, 32, 62, 32, 48>>

FormatFilter(lb, prt) ==
    LitOutbound \o (IF lb THEN <<>> ELSE <<33>>) \o LitLoopbackIpPort
    \o FormatInt(prt) \o LitPayloadLength \o <<NUL>>

(***************************************************************************)
(* Packets the transport delivers.  The filter lets through outbound IPv4  *)
(* TCP packets to the configured port that carry payload.                  *)
(***************************************************************************)
\* client 10.0.0.1:5000 -> 93.1.1.1, seq 1000, ack 4000;
\* client 10.0.0.2:5001 -> 93.1.1.2, seq 2^32 - 20, ack 2^32 - 100
Connections ==
    { [Cip |-> <<10, 0, 0, 1>>, Cpt |-> 5000, Sip |-> <<93, 1, 1, 1>>,
       S |-> <<0, 1000>>, A |-> <<0, 4000>>, IfIdx |-> 1],
      [Cip |-> <<10, 0, 0, 2>>, Cpt |-> 5001, Sip |-> <<93, 1, 1, 2>>,
       S |-> <<65535, 65516>>, A |-> <<65535, 65436>>, IfIdx |-> 2] }

Frame(c, prt, pl) ==
    [wellformed |-> TRUE,
     ip  |-> [SrcAddr |-> c.Cip, DstAddr |-> c.Sip],
     tcp |-> [SrcPort |-> htons(c.Cpt), DstPort |-> htons(prt),
              SeqNum |-> htonl(c.S), AckNum |-> htonl(c.A)],
     payload |-> pl]

\* bytes WinDivertHelperParsePacket cannot parse as IPv4/TCP
Malformed ==
    [wellformed |-> FALSE,
     ip  |-> [SrcAddr |-> ZeroAddr, DstAddr |-> ZeroAddr],
     tcp |-> [SrcPort |-> ZeroPort, DstPort |-> ZeroPort,
              SeqNum |-> ZeroSeq, AckNum |-> ZeroSeq],
     payload |-> Garbage]

\* what WinDivertRecv stores: the packet and its address metadata
Deliverable(prt) ==
    { [packet |-> Malformed,
       addr |-> [IfIdx |-> 1, Direction |-> WINDIVERT_DIRECTION_OUTBOUND]] }
    \cup
    { [packet |-> Frame(c, prt, pl),
       addr |-> [IfIdx |-> c.IfIdx, Direction |-> WINDIVERT_DIRECTION_OUTBOUND]] :
        c \in Connections, pl \in LoopPayloads }

FrameLen(pkt) == SizeofPACKET + Len(PayloadBytes(pkt.payload))

(***************************************************************************)
(* State                                                                   *)
(***************************************************************************)
VARIABLES pc, argc, argv, exit_status,
          port, loopback, target_url, new_host_url,
          temp_header_complete, temp_is_hostheader, temp_host,
          responseData, blockpage, blockpage_len, reset, finish, filter,
          packet, packet_len, payload_len, addr,
          trace

vars == <<pc, argc, argv, exit_status,
          port, loopback, target_url, new_host_url,
          temp_header_complete, temp_is_hostheader, temp_host,
          responseData, blockpage, blockpage_len, reset, finish, filter,
          packet, packet_len, payload_len, addr,
          trace>>

config == <<argc, argv, port, loopback, target_url, new_host_url>>

temps == <<temp_header_complete, temp_is_hostheader, temp_host>>

templates == <<responseData, blockpage, blockpage_len, reset, finish>>

received == <<packet, packet_len, payload_len, addr>>

\* an entry of the trace: what a call was given and what it returned
Ev(op, buf, data, len, a, ok) ==
    [op |-> op, buf |-> buf, data |-> data, len |-> len, addr |-> a, ok |-> ok]

\* fprintf(stderr, ...)
Stderr(msg) == Ev("stderr", msg, <<>>, 0, <<>>, FALSE)

Init ==
    /\ pc = "main"
    /\ \/ argc = ExpectedArgc /\ argv \in GoodArgvs
       \/ argc = 2 /\ argv = ShortArgv
    /\ exit_status = "running"
    /\ port = 80
    /\ loopback = FALSE
    /\ target_url = <<NUL>>
    /\ new_host_url = <<NUL>>
    /\ temp_header_complete = FALSE
    /\ temp_is_hostheader = FALSE
    /\ temp_host = <<NUL>>
    /\ responseData = <<NUL>>
    /\ blockpage = [header |-> ZeroPACKET, data |-> <<>>]
    /\ blockpage_len = 0
    /\ reset = ZeroPACKET
    /\ finish = ZeroPACKET
    /\ filter = <<NUL>>
    /\ packet = Malformed
    /\ packet_len = 0
    /\ payload_len = 0
    /\ addr = [IfIdx |-> 0, Direction |-> WINDIVERT_DIRECTION_OUTBOUND]
    /\ trace = <<>>

(***************************************************************************)
(* Startup: main() up to the loop                                          *)
(***************************************************************************)
ParseArgs ==
    /\ pc = "main"
    /\ IF argc # ExpectedArgc
       THEN /\ trace' = Append(trace, Stderr("usage"))
            /\ exit_status' = "EXIT_FAILURE"
            /\ pc' = "exit"
            /\ UNCHANGED <<port, loopback, target_url, new_host_url>>
       ELSE /\ port' = atoi(argv[1])
            /\ target_url' = strcpy(argv[2])
            /\ new_host_url' = strcpy(argv[3])
            /\ loopback' = IF strnicmp(argv[4], LitTrue, 4) = 0 THEN TRUE ELSE FALSE
            /\ pc' = "response"
            /\ UNCHANGED <<trace, exit_status>>
    /\ UNCHANGED <<argc, argv, temps, templates, filter, received>>

\* malloc(1024*2) is not checked: on NULL the first store faults
BuildResponse ==
    /\ pc = "response"
    /\ \E malloc_ok \in BOOLEAN :
         IF malloc_ok
         THEN /\ \E r1 \in {strcat(<<NUL>>, LitResponseHead)} :
                   \E r2 \in {strcat(r1, new_host_url)} :
                     responseData' = strcat(r2, LitResponseTail)
              /\ pc' = "templates"
         ELSE /\ pc' = "fault"
              /\ UNCHANGED responseData
    /\ UNCHANGED <<config, exit_status, temps, blockpage, blockpage_len, reset,
                   finish, filter, received, trace>>

\* BuildTemplates without the store to blockpage->header.tcp.SrcPort
BuildTemplates_NoSrcPort ==
    /\ pc = "templates"
    /\ blockpage_len' = (SizeofDATAPACKET + strlen(responseData)) % Word
    /\ \E malloc_ok \in BOOLEAN :
         IF ~malloc_ok
         THEN /\ trace' = Append(trace, Stderr("memory allocation failed"))
              /\ exit_status' = "EXIT_FAILURE"
              /\ pc' = "exit"
              /\ UNCHANGED <<blockpage, reset, finish>>
         ELSE /\ blockpage' =
                    [header |-> [PacketInit EXCEPT
                                    !.ip.Length = htons(blockpage_len'),
                                    !.tcp.Psh = 1,
                                    !.tcp.Ack = 1],
                     data |-> memcpy(responseData, strlen(responseData))]
              /\ reset' = [PacketInit EXCEPT !.tcp.Rst = 1, !.tcp.Ack = 1]
              /\ finish' = [PacketInit EXCEPT !.tcp.Fin = 1, !.tcp.Ack = 1]
              /\ pc' = "open"
              /\ UNCHANGED <<trace, exit_status>>
    /\ UNCHANGED <<config, temps, responseData, filter, received>>

BuildTemplates ==
    /\ pc = "templates"
    /\ blockpage_len' = (SizeofDATAPACKET + strlen(responseData)) % Word
    /\ \E malloc_ok \in BOOLEAN :
         IF ~malloc_ok
         THEN /\ trace' = Append(trace, Stderr("memory allocation failed"))
              /\ exit_status' = "EXIT_FAILURE"
              /\ pc' = "exit"
              /\ UNCHANGED <<blockpage, reset, finish>>
         ELSE /\ blockpage' =
                    [header |-> [PacketInit EXCEPT
                                    !.ip.Length = htons(blockpage_len'),
                                    !.tcp.SrcPort = htons(port),
                                    !.tcp.Psh = 1,
                                    !.tcp.Ack = 1],
                     data |-> memcpy(responseData, strlen(responseData))]
              /\ reset' = [PacketInit EXCEPT !.tcp.Rst = 1, !.tcp.Ack = 1]
              /\ finish' = [PacketInit EXCEPT !.tcp.Fin = 1, !.tcp.Ack = 1]
              /\ pc' = "open"
              /\ UNCHANGED <<trace, exit_status>>
    /\ UNCHANGED <<config, temps, responseData, filter, received>>

OpenDevice ==
    /\ pc = "open"
    /\ filter' = FormatFilter(loopback, port)
    /\ \E open_ok \in BOOLEAN :
         IF ~open_ok
         THEN /\ trace' = Append(trace, Stderr("failed to open the WinDivert device"))
              /\ exit_status' = "EXIT_FAILURE"
              /\ pc' = "exit"
         ELSE /\ pc' = "recv"
              /\ UNCHANGED <<trace, exit_status>>
    /\ UNCHANGED <<config, temps, templates, received>>

(***************************************************************************)
(* The interception loop                                                   *)
(***************************************************************************)
\* Recv leaving the address metadata of the cycle before in addr
Recv_KeepAddr ==
    /\ pc = "recv"
    /\ \E recv_ok \in BOOLEAN :
         IF recv_ok
         THEN \E d \in Deliverable(port) :
                /\ packet' = d.packet
                /\ packet_len' = FrameLen(d.packet)
                /\ trace' = << Ev("recv", "packet", d.packet, FrameLen(d.packet),
                                  d.addr, TRUE) >>
                /\ pc' = "parse"
         ELSE /\ trace' = << Ev("recv", "packet", packet, packet_len, addr, FALSE),
                             Stderr("failed to read packet") >>
              /\ pc' = "recv"
              /\ UNCHANGED <<packet, packet_len>>
    /\ UNCHANGED <<config, exit_status, temps, templates, filter, payload_len, addr>>

\* WinDivertRecv (lines 181-186)
Recv ==
    /\ pc = "recv"
    /\ \E recv_ok \in BOOLEAN :
         IF recv_ok
         THEN \E d \in Deliverable(port) :
                /\ packet' = d.packet
                /\ packet_len' = FrameLen(d.packet)
                /\ addr' = d.addr
                /\ trace' = << Ev("recv", "packet", d.packet, FrameLen(d.packet),
                                  d.addr, TRUE) >>
                /\ pc' = "parse"
         ELSE /\ trace' = << Ev("recv", "packet", packet, packet_len, addr, FALSE),
                             Stderr("failed to read packet") >>
              /\ pc' = "recv"
              /\ UNCHANGED <<packet, packet_len, addr>>
    /\ UNCHANGED <<config, exit_status, temps, templates, filter, payload_len>>

\* WinDivertHelperParsePacket || HttpRequestPayloadMatch (lines 188-190)
Classify ==
    /\ pc = "parse"
    /\ IF ~packet.wellformed
       THEN /\ pc' = "reinject"
            /\ UNCHANGED <<temps, payload_len, trace>>
       ELSE \E m \in { MatchResults[[temp_header_complete |-> temp_header_complete,
                                      temp_is_hostheader |-> temp_is_hostheader,
                                      temp_host |-> temp_host],
                                     packet.payload, target_url] } :
                /\ payload_len' = Len(PayloadBytes(packet.payload))
                /\ temp_header_complete' = m.temp.temp_header_complete
                /\ temp_is_hostheader' = m.temp.temp_is_hostheader
                /\ temp_host' = m.temp.temp_host
                /\ trace' = Append(trace, Ev("match", "packet", packet.payload,
                                             payload_len' % Word, addr, m.ret))
                /\ pc' = IF m.ret THEN "reset_stamp" ELSE "reinject"
    /\ UNCHANGED <<config, exit_status, templates, filter, packet, packet_len, addr>>

\* the result of a WinDivertSend and the warning printed when it fails
SendResult(buf, data, len, ok, msg) ==
    IF ok THEN << Ev("send", buf, data, len, addr, TRUE) >>
    ELSE << Ev("send", buf, data, len, addr, FALSE), Stderr(msg) >>

\* Reinject without the `continue': control falls into the hijack
Reinject_FallThrough ==
    /\ pc = "reinject"
    /\ \E send_ok \in BOOLEAN :
         trace' = trace \o SendResult("packet", packet, packet_len, send_ok,
                                      "failed to reinject packet")
    /\ pc' = "reset_stamp"
    /\ UNCHANGED <<config, exit_status, temps, templates, filter, received>>

\* Reinject treating a failed send as fatal
Reinject_ExitOnFailure ==
    /\ pc = "reinject"
    /\ \E send_ok \in BOOLEAN :
         /\ trace' = trace \o SendResult("packet", packet, packet_len, send_ok,
                                         "failed to reinject packet")
         /\ pc' = IF send_ok THEN "recv" ELSE "exit"
         /\ exit_status' = IF send_ok THEN exit_status ELSE "EXIT_FAILURE"
    /\ UNCHANGED <<config, temps, templates, filter, received>>

\* lines 193-198
Reinject ==
    /\ pc = "reinject"
    /\ \E send_ok \in BOOLEAN :
         trace' = trace \o SendResult("packet", packet, packet_len, send_ok,
                                      "failed to reinject packet")
    /\ pc' = "recv"
    /\ UNCHANGED <<config, exit_status, temps, templates, filter, received>>

\* StampReset initializing the template anew before it stamps it
StampReset_Reinit ==
    /\ pc = "reset_stamp"
    /\ reset' = [PacketInit EXCEPT !.ip.SrcAddr = packet.ip.SrcAddr,
                                   !.ip.DstAddr = packet.ip.DstAddr,
                                   !.tcp.SrcPort = packet.tcp.SrcPort,
                                   !.tcp.DstPort = htons(port),
                                   !.tcp.SeqNum = packet.tcp.SeqNum,
                                   !.tcp.AckNum = packet.tcp.AckNum]
    /\ pc' = "reset_cksum"
    /\ UNCHANGED <<config, exit_status, temps, responseData, blockpage,
                   blockpage_len, finish, filter, received, trace>>

\* lines 206-211
StampReset ==
    /\ pc = "reset_stamp"
    /\ reset' = [reset EXCEPT !.ip.SrcAddr = packet.ip.SrcAddr,
                              !.ip.DstAddr = packet.ip.DstAddr,
                              !.tcp.SrcPort = packet.tcp.SrcPort,
                              !.tcp.DstPort = htons(port),
                              !.tcp.SeqNum = packet.tcp.SeqNum,
                              !.tcp.AckNum = packet.tcp.AckNum]
    /\ pc' = "reset_cksum"
    /\ UNCHANGED <<config, exit_status, temps, responseData, blockpage,
                   blockpage_len, finish, filter, received, trace>>

\* line 212
ChecksumReset ==
    /\ pc = "reset_cksum"
    /\ reset' = WinDivertHelperCalcChecksums(reset, <<>>, SizeofPACKET)
    /\ trace' = Append(trace, Ev("cksum", "reset", reset', SizeofPACKET, addr, TRUE))
    /\ pc' = "reset_send"
    /\ UNCHANGED <<config, exit_status, temps, responseData, blockpage,
                   blockpage_len, finish, filter, received>>

\* SendReset giving up the cycle when the send fails
SendReset_ContinueOnFailure ==
    /\ pc = "reset_send"
    /\ \E send_ok \in BOOLEAN :
         /\ trace' = trace \o SendResult("reset", reset, SizeofPACKET, send_ok,
                                         "failed to send reset packet")
         /\ pc' = IF send_ok THEN "blockpage_stamp" ELSE "recv"
    /\ UNCHANGED <<config, exit_status, temps, templates, filter, received>>

\* lines 213-217
SendReset ==
    /\ pc = "reset_send"
    /\ \E send_ok \in BOOLEAN :
         trace' = trace \o SendResult("reset", reset, SizeofPACKET, send_ok,
                                      "failed to send reset packet")
    /\ pc' = "blockpage_stamp"
    /\ UNCHANGED <<config, exit_status, temps, templates, filter, received>>

\* StampBlockpage acknowledging the observed sequence number itself
StampBlockpage_AckNoPayload ==
    /\ pc = "blockpage_stamp"
    /\ blockpage' =
         [blockpage EXCEPT
            !.header.ip.SrcAddr = packet.ip.DstAddr,
            !.header.ip.DstAddr = packet.ip.SrcAddr,
            !.header.tcp.DstPort = packet.tcp.SrcPort,
            !.header.tcp.SeqNum = packet.tcp.AckNum,
            !.header.tcp.AckNum = packet.tcp.SeqNum]
    /\ addr' = [addr EXCEPT !.Direction = NotDirection(addr.Direction)]
    /\ pc' = "blockpage_cksum"
    /\ UNCHANGED <<config, exit_status, temps, responseData, blockpage_len, reset,
                   finish, filter, packet, packet_len, payload_len, trace>>

\* lines 220-226
StampBlockpage ==
    /\ pc = "blockpage_stamp"
    /\ blockpage' =
         [blockpage EXCEPT
            !.header.ip.SrcAddr = packet.ip.DstAddr,
            !.header.ip.DstAddr = packet.ip.SrcAddr,
            !.header.tcp.DstPort = packet.tcp.SrcPort,
            !.header.tcp.SeqNum = packet.tcp.AckNum,
            !.header.tcp.AckNum = htonl(Add32(ntohl(packet.tcp.SeqNum), payload_len))]
    /\ addr' = [addr EXCEPT !.Direction = NotDirection(addr.Direction)]
    /\ pc' = "blockpage_cksum"
    /\ UNCHANGED <<config, exit_status, temps, responseData, blockpage_len, reset,
                   finish, filter, packet, packet_len, payload_len, trace>>

\* ChecksumBlockpage over the headers only, sizeof(PACKET) for blockpage_len
ChecksumBlockpage_HeaderOnly ==
    /\ pc = "blockpage_cksum"
    /\ blockpage' =
         [blockpage EXCEPT
            !.header = WinDivertHelperCalcChecksums(blockpage.header,
                                                    blockpage.data, SizeofPACKET)]
    /\ trace' = Append(trace, Ev("cksum", "blockpage", blockpage', SizeofPACKET,
                                 addr, TRUE))
    /\ pc' = "blockpage_send"
    /\ UNCHANGED <<config, exit_status, temps, responseData, blockpage_len, reset,
                   finish, filter, received>>

\* line 227
ChecksumBlockpage ==
    /\ pc = "blockpage_cksum"
    /\ blockpage' =
         [blockpage EXCEPT
            !.header = WinDivertHelperCalcChecksums(blockpage.header,
                                                    blockpage.data, blockpage_len)]
    /\ trace' = Append(trace, Ev("cksum", "blockpage", blockpage', blockpage_len,
                                 addr, TRUE))
    /\ pc' = "blockpage_send"
    /\ UNCHANGED <<config, exit_status, temps, responseData, blockpage_len, reset,
                   finish, filter, received>>

\* lines 228-233
SendBlockpage ==
    /\ pc = "blockpage_send"
    /\ \E send_ok \in BOOLEAN :
         trace' = trace \o SendResult("blockpage", blockpage, blockpage_len, send_ok,
                                      "failed to send block page packet")
    /\ pc' = "finish_stamp"
    /\ UNCHANGED <<config, exit_status, temps, templates, filter, received>>

\* StampFinish advancing the sequence number by the 3-byte entity body only
StampFinish_SeqPlusBodyOnly ==
    /\ pc = "finish_stamp"
    /\ finish' =
         [finish EXCEPT
            !.ip.SrcAddr = packet.ip.DstAddr,
            !.ip.DstAddr = packet.ip.SrcAddr,
            !.tcp.SrcPort = htons(port),
            !.tcp.DstPort = packet.tcp.SrcPort,
            !.tcp.SeqNum = htonl(Add32(ntohl(packet.tcp.AckNum), 3)),
            !.tcp.AckNum = htonl(Add32(ntohl(packet.tcp.SeqNum), payload_len))]
    /\ pc' = "finish_cksum"
    /\ UNCHANGED <<config, exit_status, temps, responseData, blockpage,
                   blockpage_len, reset, filter, received, trace>>

\* StampFinish without the store to finish->tcp.DstPort
StampFinish_KeepDstPort ==
    /\ pc = "finish_stamp"
    /\ finish' =
         [finish EXCEPT
            !.ip.SrcAddr = packet.ip.DstAddr,
            !.ip.DstAddr = packet.ip.SrcAddr,
            !.tcp.SrcPort = htons(port),
            !.tcp.SeqNum = htonl(Add32(ntohl(packet.tcp.AckNum), strlen(responseData))),
            !.tcp.AckNum = htonl(Add32(ntohl(packet.tcp.SeqNum), payload_len))]
    /\ pc' = "finish_cksum"
    /\ UNCHANGED <<config, exit_status, temps, responseData, blockpage,
                   blockpage_len, reset, filter, received, trace>>

\* lines 237-244
StampFinish ==
    /\ pc = "finish_stamp"
    /\ finish' =
         [finish EXCEPT
            !.ip.SrcAddr = packet.ip.DstAddr,
            !.ip.DstAddr = packet.ip.SrcAddr,
            !.tcp.SrcPort = htons(port),
            !.tcp.DstPort = packet.tcp.SrcPort,
            !.tcp.SeqNum = htonl(Add32(ntohl(packet.tcp.AckNum), strlen(responseData))),
            !.tcp.AckNum = htonl(Add32(ntohl(packet.tcp.SeqNum), payload_len))]
    /\ pc' = "finish_cksum"
    /\ UNCHANGED <<config, exit_status, temps, responseData, blockpage,
                   blockpage_len, reset, filter, received, trace>>

\* line 245
ChecksumFinish ==
    /\ pc = "finish_cksum"
    /\ finish' = WinDivertHelperCalcChecksums(finish, <<>>, SizeofPACKET)
    /\ trace' = Append(trace, Ev("cksum", "finish", finish', SizeofPACKET, addr, TRUE))
    /\ pc' = "finish_send"
    /\ UNCHANGED <<config, exit_status, temps, responseData, blockpage,
                   blockpage_len, reset, filter, received>>

\* lines 246-250
SendFinish ==
    /\ pc = "finish_send"
    /\ \E send_ok \in BOOLEAN :
         trace' = trace \o SendResult("finish", finish, SizeofPACKET, send_ok,
                                      "failed to send finish packet")
    /\ pc' = "recv"
    /\ UNCHANGED <<config, exit_status, temps, templates, filter, received>>

Next ==
    \/ ParseArgs
    \/ BuildResponse
    \/ BuildTemplates
    \/ OpenDevice
    \/ Recv
    \/ Classify
    \/ Reinject
    \/ StampReset
    \/ ChecksumReset
    \/ SendReset
    \/ StampBlockpage
    \/ ChecksumBlockpage
    \/ SendBlockpage
    \/ StampFinish
    \/ ChecksumFinish
    \/ SendFinish

Spec == Init /\ [][Next]_vars

\* the steps of a cycle after its Receive
LoopBody ==
    \/ Classify
    \/ Reinject
    \/ StampReset
    \/ ChecksumReset
    \/ SendReset
    \/ StampBlockpage
    \/ ChecksumBlockpage
    \/ SendBlockpage
    \/ StampFinish
    \/ ChecksumFinish
    \/ SendFinish

\* the loop body is straight-line code whose calls return: a cycle that has
\* received a packet goes on to its end.  Receive itself may block for ever.
FairSpec == Spec /\ WF_vars(LoopBody)

TypeOK ==
    /\ pc \in {"main", "response", "templates", "open", "exit", "fault", "recv",
               "parse", "reinject", "reset_stamp", "reset_cksum", "reset_send",
               "blockpage_stamp", "blockpage_cksum", "blockpage_send",
               "finish_stamp", "finish_cksum", "finish_send"}
    /\ temp_header_complete \in BOOLEAN
    /\ temp_is_hostheader \in BOOLEAN
    /\ loopback \in BOOLEAN

(***************************************************************************)
(* Vocabulary of the properties.  The trace starts with the Receive of the *)
(* current cycle and lists, in order, the calls made since.                *)
(***************************************************************************)
InLoop == pc \notin {"main", "response", "templates", "open", "exit", "fault"}

\* a cycle has received a packet
Observing == InLoop /\ trace # <<>> /\ trace[1].op = "recv" /\ trace[1].ok

\* the cycle of a received packet is over
CycleDone == Observing /\ pc = "recv"

ObsPacket == trace[1].data

ObsS == ntohl(ObsPacket.tcp.SeqNum)

ObsA == ntohl(ObsPacket.tcp.AckNum)

ObsL == Len(PayloadBytes(ObsPacket.payload))

\* the 32-bit number h plus n, wrapping at 2^32
SeqPlus(h, n) ==
    LET total == h[2] + n
    IN  <<(h[1] + (total \div Word)) % Word, total % Word>>

\* the two wire bytes of port number p
PortBytes(p) == <<p \div 256, p % 256>>

Indices(op, buf) == { i \in 1..Len(trace) : trace[i].op = op /\ trace[i].buf = buf }

Forged == {"reset", "blockpage", "finish"}

\* the PACKET header of the data of a send or checksum entry
HeaderOf(e) == IF e.buf = "blockpage" THEN e.data.header ELSE e.data

\* the bytes after the headers that a send or checksum entry covers
PayloadOf(e) ==
    IF e.buf = "blockpage" THEN SubSeq(e.data.data, 1, e.len - SizeofPACKET) ELSE <<>>

MatchCalls == { i \in 1..Len(trace) : trace[i].op = "match" }

Matched == \E i \in MatchCalls : trace[i].ok

SendBufs == [i \in 1..Len(SelectSeq(trace, LAMBDA e : e.op = "send")) |->
                SelectSeq(trace, LAMBDA e : e.op = "send")[i].buf]

\* C1: in every cycle each forged packet is sent with RST.seq = S, RST.ack = A,
\* Redirect.seq = A, Redirect.ack = S + L and FIN.ack = S + L, for the sequence
\* number S, acknowledgment number A and payload length L of the packet
\* observed in this cycle
C1_SeqAckOfObservation ==
    Observing =>
      /\ \A i \in Indices("send", "reset") :
           /\ ntohl(trace[i].data.tcp.SeqNum) = ObsS
           /\ ntohl(trace[i].data.tcp.AckNum) = ObsA
      /\ \A i \in Indices("send", "blockpage") :
           /\ ntohl(trace[i].data.header.tcp.SeqNum) = ObsA
           /\ ntohl(trace[i].data.header.tcp.AckNum) = SeqPlus(ObsS, ObsL)
      /\ \A i \in Indices("send", "finish") :
           ntohl(trace[i].data.tcp.AckNum) = SeqPlus(ObsS, ObsL)

\* the three packets of the observation S = 1000, A = 4000 have been sent
C1_Witness ==
    /\ CycleDone
    /\ SendBufs = <<"reset", "blockpage", "finish">>
    /\ ObsS = <<0, 1000>> /\ ObsA = <<0, 4000>>
    /\ ntohl(finish.tcp.AckNum) = <<0, 1000 + ObsL>>

\* C2: FIN.seq = Redirect.seq + the number of payload bytes the Redirect packet
\* carries, the whole forged response
C2_FinSeqAfterRedirectData ==
    Observing =>
      \A i \in Indices("send", "finish") :
        \E j \in Indices("send", "blockpage") :
          /\ j < i
          /\ trace[j].len - SizeofPACKET = Len(trace[j].data.data)
          /\ ntohl(trace[i].data.tcp.SeqNum) =
               SeqPlus(ntohl(trace[j].data.header.tcp.SeqNum),
                       trace[j].len - SizeofPACKET)

\* a FIN has been sent whose sequence number wrapped past 2^32
C2_Witness ==
    /\ CycleDone
    /\ Indices("send", "finish") # {}
    /\ ObsA = <<65535, 65436>>
    /\ ntohl(finish.tcp.SeqNum)[1] = 0

\* C3: RST goes from (Cip,Cpt) to (Sip,P); Redirect and FIN go from (Sip,P) to
\* (Cip,Cpt), P the configured port
C3_Addressing ==
    Observing =>
      /\ \A i \in Indices("send", "reset") :
           /\ trace[i].data.ip.SrcAddr = ObsPacket.ip.SrcAddr
           /\ trace[i].data.tcp.SrcPort = ObsPacket.tcp.SrcPort
           /\ trace[i].data.ip.DstAddr = ObsPacket.ip.DstAddr
           /\ trace[i].data.tcp.DstPort = PortBytes(port)
      /\ \A i \in Indices("send", "blockpage") \cup Indices("send", "finish") :
           /\ HeaderOf(trace[i]).ip.SrcAddr = ObsPacket.ip.DstAddr
           /\ HeaderOf(trace[i]).tcp.SrcPort = PortBytes(port)
           /\ HeaderOf(trace[i]).ip.DstAddr = ObsPacket.ip.SrcAddr
           /\ HeaderOf(trace[i]).tcp.DstPort = ObsPacket.tcp.SrcPort

\* all three packets have been sent for client 10.0.0.2:5001 with port 8080
C3_Witness ==
    /\ CycleDone
    /\ SendBufs = <<"reset", "blockpage", "finish">>
    /\ port = 8080
    /\ ObsPacket.ip.SrcAddr = <<10, 0, 0, 2>>
    /\ blockpage.header.tcp.SrcPort = <<31, 144>>

\* a header field named Host, in any letter case
IsHostField(name) ==
    /\ Len(name) = 4
    /\ <<tolower(name[1]), tolower(name[2]), tolower(name[3]), tolower(name[4])>>
         = <<104, 111, 115, 116>>

\* the header value v equals the configured target, ignoring letter case
EqualsTarget(v) ==
    /\ Len(v) = strlen(target_url)
    /\ \A i \in 1..Len(v) : tolower(v[i]) = tolower(target_url[i])

\* the payload has a Host header whose value is the target
HasTargetHost(p) ==
    \E k \in 1..Len(p.headers) :
      IsHostField(p.headers[k].name) /\ EqualsTarget(p.headers[k].value)

\* C4: a well-formed request with a complete header block and a Host header
\* equal to the target is a match, whatever other headers surround it
C4_HostHeaderMatches ==
    Observing =>
      \A i \in MatchCalls :
        (trace[i].data.valid /\ trace[i].data.terminated /\ HasTargetHost(trace[i].data))
          => trace[i].ok

\* C5: a payload with no Host header equal to the target (its Host value
\* differs, or it has no Host header) is no match, for every target
C5_OtherHostNoMatch ==
    Observing =>
      \A i \in MatchCalls : ~HasTargetHost(trace[i].data) => ~trace[i].ok

\* C6: a payload whose header block is not terminated is no match and is
\* passed through: the cycle reinjects it and forges nothing
C6_TruncatedPassesThrough ==
    Observing =>
      \A i \in MatchCalls :
        ~trace[i].data.terminated =>
          /\ ~trace[i].ok
          /\ pc \in {"reinject", "recv"}
          /\ \A b \in Forged : Indices("send", b) = {} /\ Indices("cksum", b) = {}
          /\ pc = "recv" => SendBufs = <<"packet">>

\* a cut segment that already holds the target's Host header was reinjected
C6_Witness ==
    /\ CycleDone
    /\ ObsPacket.payload = Request(<<HostQQ>>, FALSE)
    /\ target_url = <<113, 113, 0>>
    /\ SendBufs = <<"packet">>
    /\ temp_host = <<81, 81, 0>>

\* C7: a cycle that received a packet ends in exactly one of two ways: the
\* packet failed to parse or was no match, and it was reinjected once, as
\* received, nothing forged (and unparsed packets were never classified); or
\* it parsed and matched, and RST, Redirect, FIN were sent in this order and
\* the packet was not reinjected
C7_ReinjectOrHijack ==
    CycleDone =>
      LET sends == SelectSeq(trace, LAMBDA e : e.op = "send")
      IN  \/ /\ ~ObsPacket.wellformed \/ ~Matched
             /\ ~ObsPacket.wellformed => MatchCalls = {}
             /\ ObsPacket.wellformed => Cardinality(MatchCalls) = 1
             /\ Len(sends) = 1
             /\ sends[1].buf = "packet"
             /\ sends[1].data = trace[1].data
             /\ sends[1].len = trace[1].len
             /\ sends[1].addr = trace[1].addr
             /\ \A b \in Forged : Indices("cksum", b) = {}
          \/ /\ ObsPacket.wellformed /\ Matched
             /\ Cardinality(MatchCalls) = 1
             /\ SendBufs = <<"reset", "blockpage", "finish">>

\* a packet that failed to parse was reinjected without being classified
C7_Witness ==
    /\ CycleDone
    /\ ~ObsPacket.wellformed
    /\ MatchCalls = {}
    /\ SendBufs = <<"packet">>

\* the per-connection fields of a header
ConnFields(h) ==
    <<h.ip.SrcAddr, h.ip.DstAddr, h.tcp.SrcPort, h.tcp.DstPort, h.tcp.SeqNum,
      h.tcp.AckNum>>

\* the wire bytes of the 32-bit number h
SeqBytes(h) == <<h[1] \div 256, h[1] % 256, h[2] \div 256, h[2] % 256>>

\* what the per-connection fields of a forged packet are to be in this cycle
StampOf(buf) ==
    CASE buf = "reset" ->
           <<ObsPacket.ip.SrcAddr, ObsPacket.ip.DstAddr, ObsPacket.tcp.SrcPort,
             PortBytes(port), SeqBytes(ObsS), SeqBytes(ObsA)>>
      [] buf = "blockpage" ->
           <<ObsPacket.ip.DstAddr, ObsPacket.ip.SrcAddr, PortBytes(port),
             ObsPacket.tcp.SrcPort, SeqBytes(ObsA), SeqBytes(SeqPlus(ObsS, ObsL))>>
      [] OTHER ->
           <<ObsPacket.ip.DstAddr, ObsPacket.ip.SrcAddr, PortBytes(port),
             ObsPacket.tcp.SrcPort,
             SeqBytes(SeqPlus(ObsA, strlen(responseData))),
             SeqBytes(SeqPlus(ObsS, ObsL))>>

\* the results of the sends of forged packets so far, in order
ForgedResults ==
    LET sends == SelectSeq(trace, LAMBDA e : e.op = "send" /\ e.buf \in Forged)
    IN  [i \in 1..Len(sends) |-> sends[i].ok]

\* C8: on a match all three sends are attempted whatever the earlier ones
\* returned, and what is sent is determined by the observation alone
C8_SendsIndependent ==
    (Observing /\ Matched) =>
      /\ \A i \in 1..Len(trace) :
           (trace[i].op = "send" /\ trace[i].buf \in Forged) =>
             ConnFields(HeaderOf(trace[i])) = StampOf(trace[i].buf)
      /\ pc \in {"blockpage_stamp", "blockpage_cksum", "blockpage_send"} =>
           Len(ForgedResults) = 1
      /\ pc \in {"finish_stamp", "finish_cksum", "finish_send"} =>
           Len(ForgedResults) = 2
      /\ pc = "recv" =>
           /\ Len(ForgedResults) = 3
           /\ SendBufs = <<"reset", "blockpage", "finish">>

\* all three sends failed and all three were made
C8_Witness ==
    /\ CycleDone
    /\ Matched
    /\ ForgedResults = <<FALSE, FALSE, FALSE>>

\* C9: once the loop runs nothing stops it: every state of the loop has a next
\* step and none leaves the loop, every cycle comes back to Receive, and a
\* failed Receive is followed by no classification, checksum or send
C9_LoopNeverStops ==
    /\ [](InLoop => ENABLED Next)
    /\ [][InLoop => InLoop']_vars
    /\ (InLoop /\ pc # "recv") ~> (pc = "recv")
    /\ [](InLoop /\ pc = "recv" /\ trace # <<>> /\ ~trace[1].ok =>
            \A i \in 1..Len(trace) : trace[i].op \in {"recv", "stderr"})

\* the loop is back at Receive after a reinject that failed
C9_Witness ==
    /\ CycleDone
    /\ \E i \in Indices("send", "packet") : ~trace[i].ok

\* C10: each forged packet is checksummed once, when its per-connection fields
\* hold this cycle's values, and is sent next, unchanged: the bytes sent are
\* the bytes checksummed and the checksums are those of the bytes sent
C10_ChecksumThenSend ==
    Observing =>
      \A b \in Forged :
        /\ Cardinality(Indices("cksum", b)) <= 1
        /\ \A i \in Indices("send", b) :
             /\ Cardinality(Indices("cksum", b)) = 1
             /\ i > 1
             /\ trace[i - 1].op = "cksum"
             /\ trace[i - 1].buf = b
             /\ trace[i - 1].data = trace[i].data
             /\ trace[i - 1].len = trace[i].len
             /\ ConnFields(HeaderOf(trace[i])) = StampOf(b)
             /\ HeaderOf(trace[i]).ip.Checksum = IpChecksumOf(HeaderOf(trace[i]))
             /\ HeaderOf(trace[i]).tcp.Checksum =
                  <<HeaderOf(trace[i]).ip.SrcAddr, HeaderOf(trace[i]).ip.DstAddr,
                    HeaderOf(trace[i]).ip.Protocol, trace[i].len - SizeofIPHDR>>
                  \o SubSeq(ConnFields(HeaderOf(trace[i])), 3, 6)
                  \o <<HeaderOf(trace[i]).tcp.HdrLength, HeaderOf(trace[i]).tcp.Fin,
                       HeaderOf(trace[i]).tcp.Syn, HeaderOf(trace[i]).tcp.Rst,
                       HeaderOf(trace[i]).tcp.Psh, HeaderOf(trace[i]).tcp.Ack,
                       PayloadOf(trace[i])>>

\* the three packets of a match were each checksummed and sent, the Redirect
\* with its payload
C10_Witness ==
    /\ CycleDone
    /\ \A b \in Forged : Indices("cksum", b) # {} /\ Indices("send", b) # {}
    /\ \E i \in Indices("send", "blockpage") : Len(PayloadOf(trace[i])) > 0

\* C14: the result of a classification is the result the same payload and
\* target give from every value the captured host, the is-host flag and the
\* headers-complete flag can have been left with by earlier classifications
C14_ResultIndependentOfEarlierCalls ==
    Observing =>
      \A i \in MatchCalls :
        \A t \in TempStates :
          MatchResults[t, trace[i].data, target_url].ret = trace[i].ok

\* a request without Host header was classified as no match while temp_host
\* still held, behind its first byte, the target left by an earlier request
C14_Witness ==
    /\ Observing
    /\ pc = "reinject"
    /\ target_url = <<113, 113, 0>>
    /\ ObsPacket.payload = Request(<<>>, TRUE)
    /\ \E i \in MatchCalls : ~trace[i].ok
    /\ temp_header_complete
    /\ temp_host = <<0, 81, 0>>

\* the length of the forged response the configuration gives
ResponseLen ==
    (Len(LitResponseHead) - 1) + strlen(new_host_url) + (Len(LitResponseTail) - 1)

\* C11: when a forged packet is about to be sent, its addresses, ports,
\* sequence number and acknowledgment number are given by the packet received
\* in this cycle and the configuration alone, whatever earlier cycles wrote
\* into the template
C11_StampingDoesNotLeak ==
    /\ pc = "reset_send" =>
          ConnFields(reset) =
            <<packet.ip.SrcAddr, packet.ip.DstAddr, packet.tcp.SrcPort,
              PortBytes(port), packet.tcp.SeqNum, packet.tcp.AckNum>>
    /\ pc = "blockpage_send" =>
          ConnFields(blockpage.header) =
            <<packet.ip.DstAddr, packet.ip.SrcAddr, PortBytes(port),
              packet.tcp.SrcPort, packet.tcp.AckNum,
              SeqBytes(SeqPlus(ntohl(packet.tcp.SeqNum),
                               Len(PayloadBytes(packet.payload))))>>
    /\ pc = "finish_send" =>
          ConnFields(finish) =
            <<packet.ip.DstAddr, packet.ip.SrcAddr, PortBytes(port),
              packet.tcp.SrcPort,
              SeqBytes(SeqPlus(ntohl(packet.tcp.AckNum), ResponseLen)),
              SeqBytes(SeqPlus(ntohl(packet.tcp.SeqNum),
                               Len(PayloadBytes(packet.payload))))>>

\* the Redirect is about to be sent to client 10.0.0.1 while the FIN template
\* still holds what the hijack of client 10.0.0.2 wrote into it
C11_Witness ==
    /\ pc = "blockpage_send"
    /\ packet.ip.SrcAddr = <<10, 0, 0, 1>>
    /\ blockpage.header.ip.DstAddr = <<10, 0, 0, 1>>
    /\ finish.ip.DstAddr = <<10, 0, 0, 2>>
    /\ finish.tcp.DstPort = PortBytes(5001)

\* the maximum transmission unit of the path behind a network interface:
\* Ethernet behind interface 1, a 576-byte link behind interface 2
PathMtu(IfIdx) == IF IfIdx = 1 THEN 1500 ELSE 576

\* C12: no Redirect packet longer than the maximum transmission unit of its
\* path is passed to Send
C12_NoRedirectAboveMtu ==
    Observing =>
      \A i \in Indices("send", "blockpage") :
        trace[i].len <= PathMtu(trace[i].addr.IfIdx)

\* the calls of this cycle that failed
FailedCalls == { i \in 1..Len(trace) : trace[i].op \in {"recv", "send"} /\ ~trace[i].ok }

\* the cycle has found that its packet does not parse as IPv4/TCP
ParseFailed == Observing /\ ~ObsPacket.wellformed /\ pc # "parse"

LogEntries == { i \in 1..Len(trace) : trace[i].op = "stderr" }

\* C13: every failure leaves a log entry in its cycle: a failed Receive or
\* Send is followed by its entry at once, and a packet that failed to parse
\* has an entry of its own besides those of the failed calls
C13_EveryFailureLogged ==
    (InLoop /\ trace # <<>>) =>
      /\ \A i \in FailedCalls : i < Len(trace) /\ trace[i + 1].op = "stderr"
      /\ ParseFailed => Cardinality(LogEntries) > Cardinality(FailedCalls)

\* the process has stopped during startup
StartupFailed == pc \in {"exit", "fault"}

\* C15: a startup that fails (wrong argument count, failed allocation of the
\* response text or of the Redirect packet, failed Open) prints a diagnostic
\* and exits with failure status, having called neither Receive nor Send
C15_StartupFailureExits ==
    StartupFailed =>
      /\ pc = "exit"
      /\ exit_status = "EXIT_FAILURE"
      /\ trace # <<>>
      /\ trace[Len(trace)].op = "stderr"
      /\ \A i \in 1..Len(trace) : trace[i].op \notin {"recv", "send"}

\* the positions of d where an empty line (CR LF CR LF) starts
BlankLines(d) ==
    { i \in 1..(Len(d) - 3) :
        d[i] = 13 /\ d[i + 1] = 10 /\ d[i + 2] = 13 /\ d[i + 3] = 10 }

\* where the header block of the HTTP message d ends
EndOfHeaders(d) == CHOOSE i \in BlankLines(d) : \A j \in BlankLines(d) : i <= j

\* the entity body of the HTTP message d: the bytes after its first empty line
EntityBody(d) ==
    IF BlankLines(d) = {} THEN <<>> ELSE SubSeq(d, EndOfHeaders(d) + 4, Len(d))

\* "Content-Length:3"
LitContentLength3 == <<67, 111, 110, 116, 101, 110, 116, 45, 76, 101, 110, 103, 116, 104, 58, 51>>

\* the last header line of the HTTP message d is Content-Length:3
DeclaresLength3(d) ==
    /\ BlankLines(d) # {}
    /\ EndOfHeaders(d) > Len(LitContentLength3) + 2
    /\ SubSeq(d, EndOfHeaders(d) - Len(LitContentLength3) - 2, EndOfHeaders(d) - 1)
         = CRLF \o LitContentLength3

\* C16: for every replacement host the payload of the Redirect template
\* declares Content-Length 3 and has the entity body "302", its IP total
\* length is the header size plus the payload's length, and that many bytes
\* are handed to Send
C16_RedirectBodyIs302 ==
    InLoop =>
      /\ DeclaresLength3(blockpage.data)
      /\ EntityBody(blockpage.data) = <<51, 48, 50>>
      /\ blockpage.header.ip.Length = PortBytes(SizeofPACKET + Len(blockpage.data))
      /\ \A i \in Indices("send", "blockpage") :
           /\ trace[i].len = SizeofPACKET + Len(trace[i].data.data)
           /\ trace[i].data.header.ip.Length = PortBytes(trace[i].len)

\* the values of the headers of payload p whose field name is Host
HostValues(p) ==
    { p.headers[k].value : k \in { j \in 1..Len(p.headers) : IsHostField(p.headers[j].name) } }

\* C17: only a header named exactly Host is captured: after a classification
\* the captured host is empty or the value of a header named Host, and with a
\* target that is not empty a payload without a header named Host is no match
C17_OnlyHostFieldCaptured ==
    (Observing /\ MatchCalls # {}) =>
      /\ CStr(temp_host) \in {<<>>} \cup HostValues(ObsPacket.payload)
      /\ \A i \in MatchCalls :
           (strlen(target_url) > 0 /\ HostValues(trace[i].data) = {}) => ~trace[i].ok

\* the fields of a header that no cycle is to change: version, IP header
\* length, IP total length, TTL, protocol, TCP header length, and the flags
\* FIN, SYN, RST, PSH, ACK
FixedPart(h) ==
    <<h.ip.Version, h.ip.HdrLength, h.ip.Length, h.ip.TTL, h.ip.Protocol,
      h.tcp.HdrLength, h.tcp.Fin, h.tcp.Syn, h.tcp.Rst, h.tcp.Psh, h.tcp.Ack>>

\* the forged response the configuration gives
ResponseBytes ==
    SubSeq(LitResponseHead, 1, Len(LitResponseHead) - 1) \o CStr(new_host_url)
    \o SubSeq(LitResponseTail, 1, Len(LitResponseTail) - 1)

\* C18: in the loop the fixed part of each template is as constructed (RST:
\* flags RST and ACK, FIN: FIN and ACK, Redirect: PSH and ACK and the response
\* as payload; all: IPv4, header lengths 5 words, TCP, TTL 64, total length
\* as constructed), and no step of a cycle that does not match (Receive,
\* classification, reinject) changes a template at all
C18_FixedPartUnchanged ==
    /\ [](InLoop =>
            /\ FixedPart(reset) = <<4, 5, PortBytes(SizeofPACKET), 64, 6, 5, 0, 0, 1, 0, 1>>
            /\ FixedPart(finish) = <<4, 5, PortBytes(SizeofPACKET), 64, 6, 5, 1, 0, 0, 0, 1>>
            /\ FixedPart(blockpage.header) =
                 <<4, 5, PortBytes(SizeofPACKET + Len(ResponseBytes)), 64, 6, 5,
                   0, 0, 0, 1, 1>>
            /\ blockpage.data = ResponseBytes)
    /\ [][(pc \in {"recv", "parse", "reinject"}) =>
            UNCHANGED <<reset, finish, blockpage, blockpage_len, responseData>>]_vars

\* a cycle that did not match has ended, the templates holding what the
\* hijack of an earlier cycle stamped them with
C18_Witness ==
    /\ CycleDone
    /\ ~Matched
    /\ SendBufs = <<"packet">>
    /\ reset.ip.SrcAddr # ZeroAddr
    /\ finish.ip.SrcAddr # ZeroAddr
    /\ blockpage.header.ip.SrcAddr # ZeroAddr

\* the address metadata a with its direction reversed
Reversed(a) == [a EXCEPT !.Direction = 1 - a.Direction]

\* C19: the reinjected packet and the RST are checksummed and sent with the
\* metadata this cycle's Receive delivered, whose direction is outbound; the
\* Redirect and the FIN with the same metadata, the direction reversed
C19_DirectionPerCycle ==
    Observing =>
      /\ trace[1].addr.Direction = WINDIVERT_DIRECTION_OUTBOUND
      /\ \A i \in 2..Len(trace) :
           trace[i].op \in {"cksum", "send"} =>
             /\ trace[i].buf \in {"packet", "reset"} =>
                  trace[i].addr = trace[1].addr
             /\ trace[i].buf \in {"blockpage", "finish"} =>
                  trace[i].addr = Reversed(trace[1].addr)

\* a packet was reinjected outbound in a cycle after a hijack, which had left
\* the shared metadata reversed
C19_Witness ==
    /\ CycleDone
    /\ SendBufs = <<"packet">>
    /\ \E i \in Indices("send", "packet") :
         trace[i].addr.Direction = WINDIVERT_DIRECTION_OUTBOUND
    /\ finish.ip.SrcAddr # ZeroAddr
    /\ finish.tcp.Checksum # NoChecksum

\* the wire bytes of (the 32-bit number with wire bytes w) + n modulo 2^32,
\* added byte by byte from the last, the carry taken along
BytesPlus(w, n) ==
    LET b4 == w[4] + (n % 256)
        b3 == w[3] + ((n \div 256) % 256) + (b4 \div 256)
        b2 == w[2] + ((n \div 65536) % 256) + (b3 \div 256)
        b1 == w[1] + ((n \div 16777216) % 256) + (b2 \div 256)
    IN  <<b1 % 256, b2 % 256, b3 % 256, b4 % 256>>

IsWireWord(w) == Len(w) = 4 /\ \A k \in 1..4 : w[k] \in 0..255

\* C20: sequence arithmetic wraps at 2^32: the acknowledgment number of the
\* Redirect and of the FIN is (S + L) mod 2^32 and the sequence number of the
\* FIN is (A + length of the Redirect payload) mod 2^32, each a number of
\* four bytes, for the S, A and payload length L of the packet observed
C20_SequenceArithmeticWraps ==
    Observing =>
      /\ \A i \in Indices("send", "blockpage") :
           /\ trace[i].data.header.tcp.AckNum =
                BytesPlus(ObsPacket.tcp.SeqNum, ObsL)
           /\ IsWireWord(trace[i].data.header.tcp.AckNum)
           /\ IsWireWord(trace[i].data.header.tcp.SeqNum)
      /\ \A i \in Indices("send", "finish") :
           /\ trace[i].data.tcp.AckNum = BytesPlus(ObsPacket.tcp.SeqNum, ObsL)
           /\ trace[i].data.tcp.SeqNum =
                BytesPlus(ObsPacket.tcp.AckNum, Len(blockpage.data))
           /\ IsWireWord(trace[i].data.tcp.AckNum)
           /\ IsWireWord(trace[i].data.tcp.SeqNum)

\* the FIN was sent for S = 2^32 - 20 and A = 2^32 - 100: both its numbers
\* have passed 2^32 and are small again
C20_Witness ==
    /\ CycleDone
    /\ Indices("send", "finish") # {}
    /\ ObsPacket.tcp.SeqNum = <<255, 255, 255, 236>>
    /\ ObsPacket.tcp.AckNum = <<255, 255, 255, 156>>
    /\ SubSeq(finish.tcp.AckNum, 1, 3) = <<0, 0, 0>>
    /\ SubSeq(finish.tcp.SeqNum, 1, 2) = <<0, 0>>

====
